---------------------------- MODULE Spec2Model ----------------------------
(***************************************************************************)
(* The ENV interceptor of sqlness (sqlness/src/interceptor/env.rs) and the *)
(* per-Case pipeline that drives it.  Text is a sequence of one-character  *)
(* strings, a HashMap<String, String> is a function from keys to values    *)
(* together with the order in which that map instance iterates its keys.   *)
(***************************************************************************)
EXTENDS Naturals, Sequences, FiniteSets, TLC

VARIABLES env, directives, query_lines, expected_output, resolved,
          execute_query, hook_in, ctx, raw, result, idx, pc, report, run, prev

vars == <<env, directives, query_lines, expected_output, resolved,
          execute_query, hook_in, ctx, raw, result, idx, pc, report, run, prev>>

-----------------------------------------------------------------------------
(* Bounds of the model.                                                    *)

\* names declared by the directives of one Case of the pipeline
MaxNames == 2
\* placeholder/text atoms in the query of one Case
MaxAtoms == 2
\* pieces a directive text handed to the factory is made of
MaxPieces == 5

-----------------------------------------------------------------------------
(* Text helpers: the std string functions the interceptor calls.           *)

PREFIX == <<"E", "N", "V">>

IsWhitespace(c) == c \in {" ", "\t", "\n"}

starts_with(s, p) ==
    /\ Len(p) <= Len(s)
    /\ SubSeq(s, 1, Len(p)) = p

RECURSIVE trim_start_matches(_, _)
trim_start_matches(s, p) ==
    IF p # <<>> /\ starts_with(s, p)
    THEN trim_start_matches(SubSeq(s, Len(p) + 1, Len(s)), p)
    ELSE s

RECURSIVE trim_start(_)
trim_start(s) ==
    IF s # <<>> /\ IsWhitespace(s[1]) THEN trim_start(Tail(s)) ELSE s

RECURSIVE trim_end(_)
trim_end(s) ==
    IF s # <<>> /\ IsWhitespace(s[Len(s)])
    THEN trim_end(SubSeq(s, 1, Len(s) - 1))
    ELSE s

\* str::split(' '): the pieces between single spaces, empty pieces kept
\* ("" splits into one empty piece).
RECURSIVE split(_, _)
split(s, sep) ==
    IF \E i \in 1..Len(s) : s[i] = sep
    THEN LET i == CHOOSE j \in 1..Len(s) :
                      s[j] = sep /\ \A k \in 1..(j - 1) : s[k] # sep
         IN  <<SubSeq(s, 1, i - 1)>> \o split(SubSeq(s, i + 1, Len(s)), sep)
    ELSE <<s>>

\* str::replace: every non-overlapping match of the pattern, left to right;
\* an empty pattern matches between all characters.
RECURSIVE replace(_, _, _)
replace(line, from, to) ==
    IF from = <<>>
    THEN IF line = <<>> THEN to
         ELSE to \o <<Head(line)>> \o replace(Tail(line), from, to)
    ELSE IF Len(line) < Len(from) THEN line
    ELSE IF starts_with(line, from)
         THEN to \o replace(SubSeq(line, Len(from) + 1, Len(line)), from, to)
         ELSE <<Head(line)>> \o replace(Tail(line), from, to)

-----------------------------------------------------------------------------
(* Option<T>: None is the empty sequence, Some(x) the one-element sequence. *)

None == <<>>

Some(x) == <<x>>

IsSome(o) == o # <<>>

Unwrap(o) == o[1]

\* HashMap::new() and HashMap::insert
EmptyMap == <<>>

insert(m, key, value) ==
    [k \in (DOMAIN m) \cup {key} |-> IF k = key THEN value ELSE m[k]]

\* The orders in which a HashMap holding the keys S may iterate them.
Orders(S) ==
    {o \in [1..Cardinality(S) -> S] :
        \A i, j \in 1..Cardinality(S) : o[i] = o[j] => i = j}

-----------------------------------------------------------------------------
(* EnvInterceptorFactory                                                   *)

\* std::env::var(name) against the process environment e, a function from
\* the names that are set (never the empty name) to their values.
env_var(e, name) == IF name \in DOMAIN e THEN Some(e[name]) ELSE None

\* format!("${env}")
placeholder(name) == <<"$">> \o name

\* collect_env with `var(env).unwrap_or_default()`: an absent variable
\* recorded with the empty value
RECURSIVE collect_env_default(_, _, _)
collect_env_default(envs, e, env_data) ==
    IF envs = <<>> THEN env_data
    ELSE LET value == env_var(e, Head(envs))
         IN  collect_env_default(Tail(envs), e,
                 insert(env_data, placeholder(Head(envs)),
                        IF IsSome(value) THEN Unwrap(value) ELSE <<>>))

\* the loop of create: `for env in envs { if let Ok(value) = var(env) ... }`
RECURSIVE collect_env(_, _, _)
collect_env(envs, e, env_data) ==
    IF envs = <<>> THEN env_data
    ELSE LET value == env_var(e, Head(envs))
         IN  collect_env(Tail(envs), e,
                 IF IsSome(value)
                 THEN insert(env_data, placeholder(Head(envs)), Unwrap(value))
                 ELSE env_data)

EnvInterceptor(env_data) == [data |-> env_data]

create(interceptor, e) ==
    IF starts_with(interceptor, PREFIX)
    THEN LET input == trim_end(trim_start(trim_start_matches(interceptor, PREFIX)))
             envs == split(input, " ")
         IN  Some(EnvInterceptor(collect_env(envs, e, EmptyMap)))
    ELSE None

try_new(interceptor, e) == create(interceptor, e)

-----------------------------------------------------------------------------
(* impl Interceptor for EnvInterceptor                                     *)

\* the inner loop of before_execute: `for (key, value) in &self.data`, the
\* keys visited in the map's iteration order, each replace reading the line
\* the previous one wrote
RECURSIVE render_line(_, _, _)
render_line(line, data, order) ==
    IF order = <<>> THEN line
    ELSE render_line(replace(line, Head(order), data[Head(order)]),
                     data, Tail(order))

\* before_execute pushing each rendered line instead of overwriting it
before_execute_push(self, lines, c) ==
    [execute_query |-> lines \o [i \in 1..Len(lines) |->
                            render_line(lines[i], self.data, self.order)],
     ctx |-> c]

before_execute(self, lines, c) ==
    [execute_query |-> [i \in 1..Len(lines) |->
                            render_line(lines[i], self.data, self.order)],
     ctx |-> c]

\* an after hook that writes the recorded values into the result
RECURSIVE values_of(_, _)
values_of(data, order) ==
    IF order = <<>> THEN <<>>
    ELSE data[Head(order)] \o values_of(data, Tail(order))

after_execute_dump(self, res, c) ==
    [result |-> res \o values_of(self.data, self.order), ctx |-> c]

\* EnvInterceptor does not override after_execute: the trait's default
\* leaves the result and the context as they are.
after_execute(self, res, c) == [result |-> res, ctx |-> c]

-----------------------------------------------------------------------------
(* The inputs of a Case: process environment, directives, query.           *)

Names == {<<"A">>, <<"B">>, <<"A", "B">>}

Values == {<<"1">>, <<"$", "B">>}

\* the process environment: the names that are set, each with its value
Environments == UNION {[S -> Values] : S \in SUBSET Names}

RECURSIVE Concat(_)
Concat(ss) == IF ss = <<>> THEN <<>> ELSE Head(ss) \o Concat(Tail(ss))

SeqsUpTo(S, n) == UNION {[1..k -> S] : k \in 0..n}

\* `ENV n1 n2 ...` as the directive parser hands it over: prefix token, then
\* the arguments, no white space around the text
DirectiveText(names) ==
    PREFIX \o Concat([i \in 1..Len(names) |-> <<" ">> \o names[i]])

\* a directive no factory of the model knows
UnknownDirective == <<"S", "O", "R", "T">>

\* the groups cut out of a sequence of items, brk[i] saying whether item i
\* starts a new group
RECURSIVE Groups(_, _)
Groups(items, brk) ==
    IF items = <<>> THEN <<>>
    ELSE LET rest == Groups(Tail(items), Tail(brk))
         IN  IF rest = <<>> \/ brk[2]
             THEN <<<<Head(items)>>>> \o rest
             ELSE <<<<Head(items)>> \o Head(rest)>> \o Tail(rest)

\* the directive lines of one Case: no directive at all, or ENV directives
\* declaring at most MaxNames names in all (in one directive or spread over
\* several), with or without an unknown directive in front
CaseDirectives ==
    LET envs == {<<DirectiveText(<<>>)>>} \cup
                UNION {{[i \in 1..Len(g) |-> DirectiveText(g[i])] :
                           g \in {Groups(ns, b) : ns \in [1..n -> Names],
                                                  b \in [1..n -> BOOLEAN]}} :
                          n \in 1..MaxNames}
    IN  {<<>>} \cup envs \cup {<<UnknownDirective>> \o ds : ds \in envs}

Atoms == {<<"$", "A">>, <<"$", "B">>, <<"B">>}

\* the lines of a query made of the atoms in order, brk[i] saying whether
\* atom i starts a new line
Lines(atoms, brk) ==
    LET g == Groups(atoms, brk) IN [i \in 1..Len(g) |-> Concat(g[i])]

\* the queries: one or more non-blank lines of at most MaxAtoms atoms in all
Queries ==
    UNION {{Lines(a, b) : a \in [1..n -> Atoms], b \in [1..n -> BOOLEAN]} :
              n \in 1..MaxAtoms}

ExpectedOutputs == {<<"o">>}

\* what the execution collaborator may answer besides echoing its input
Outputs == {<<"o">>}

FreshContext == <<>>

-----------------------------------------------------------------------------
(* The per-Case pipeline: resolve the directives, run the before hooks in  *)
(* chain order, submit, run the after hooks, compare.                      *)

\* the interceptor chain: the directives that resolved, in source order
Chain ==
    LET some == SelectSeq(resolved, IsSome)
    IN  [i \in 1..Len(some) |-> Unwrap(some[i])]

StartPc(ds) == IF ds = <<>> THEN "before" ELSE "resolve"

Diff(expected, actual) ==
    IF expected = actual THEN None ELSE Some(<<expected, actual>>)

\* step 1: hand the next directive to the factory; a HashMap instance
\* iterates in an order of its own, fixed when the map is built
Resolve ==
    /\ pc = "resolve"
    /\ idx < Len(directives)
    /\ LET made == try_new(directives[idx + 1], env)
       IN  IF IsSome(made)
           THEN \E order \in Orders(DOMAIN Unwrap(made).data) :
                   resolved' = Append(resolved,
                       Some([data |-> Unwrap(made).data, order |-> order]))
           ELSE resolved' = Append(resolved, None)
    /\ idx' = IF idx + 1 = Len(directives) THEN 0 ELSE idx + 1
    /\ pc' = IF idx + 1 = Len(directives) THEN "before" ELSE "resolve"
    /\ UNCHANGED <<env, directives, query_lines, expected_output, execute_query,
                   hook_in, ctx, raw, result, report, run, prev>>

\* step 2: the next interceptor's before hook on the mutable query lines
BeforeExecute ==
    /\ pc = "before"
    /\ idx < Len(Chain)
    /\ LET out == before_execute(Chain[idx + 1], execute_query, ctx)
       IN  /\ execute_query' = out.execute_query
           /\ ctx' = out.ctx
    /\ hook_in' = execute_query
    /\ idx' = idx + 1
    /\ UNCHANGED <<env, directives, query_lines, expected_output, resolved,
                   raw, result, pc, report, run, prev>>

\* step 3: submit the rewritten query; the collaborator's answer is opaque
Execute ==
    /\ pc = "before"
    /\ idx = Len(Chain)
    /\ \E out \in Outputs \cup {Concat(execute_query)} :
          /\ raw' = Some(out)
          /\ result' = Some(out)
    /\ idx' = 0
    /\ pc' = "after"
    /\ UNCHANGED <<env, directives, query_lines, expected_output, resolved,
                   execute_query, hook_in, ctx, report, run, prev>>

\* step 4: the next interceptor's after hook on the actual output
AfterExecute ==
    /\ pc = "after"
    /\ idx < Len(Chain)
    /\ LET out == after_execute(Chain[idx + 1], Unwrap(result), ctx)
       IN  /\ result' = Some(out.result)
           /\ ctx' = out.ctx
    /\ idx' = idx + 1
    /\ UNCHANGED <<env, directives, query_lines, expected_output, resolved,
                   execute_query, hook_in, raw, pc, report, run, prev>>

\* step 5: compare, and record what is persisted
Compare ==
    /\ pc = "after"
    /\ idx = Len(Chain)
    /\ report' = Some([passed |-> (Unwrap(result) = expected_output),
                       actual_output |-> Unwrap(result),
                       diff |-> Diff(expected_output, Unwrap(result)),
                       query |-> query_lines,
                       expected_output |-> expected_output])
    /\ pc' = "done"
    /\ UNCHANGED <<env, directives, query_lines, expected_output, resolved,
                   execute_query, hook_in, ctx, raw, result, idx, run, prev>>

Init ==
    /\ env \in Environments
    /\ directives \in CaseDirectives
    /\ query_lines \in Queries
    /\ expected_output \in ExpectedOutputs
    /\ resolved = <<>>
    /\ execute_query = query_lines
    /\ hook_in = query_lines
    /\ ctx = FreshContext
    /\ raw = None
    /\ result = None
    /\ idx = 0
    /\ pc = StartPc(directives)
    /\ report = None
    /\ run = 1
    /\ prev = None

Next ==
    \/ Resolve
    \/ BeforeExecute
    \/ Execute
    \/ AfterExecute
    \/ Compare

Spec == Init /\ [][Next]_vars

-----------------------------------------------------------------------------
(* The factory on its own, on directive texts of any shape.                *)

Pieces == {PREFIX, <<" ">>, <<"\t">>, <<"A">>, <<"B">>}

\* directive texts as the directive parser hands them over: trimmed, so
\* neither the first nor the last piece is white space
FactoryTexts ==
    {Concat(ps) : ps \in {qs \in SeqsUpTo(Pieces, MaxPieces) :
                             /\ qs # <<>>
                             /\ ~IsWhitespace(qs[1][1])
                             /\ ~IsWhitespace(qs[Len(qs)][1])}}

InitFactory ==
    /\ env \in Environments
    /\ directives \in {<<t>> : t \in FactoryTexts}
    /\ query_lines = <<<<"$", "A">>>>
    /\ expected_output \in ExpectedOutputs
    /\ resolved = <<>>
    /\ execute_query = query_lines
    /\ hook_in = query_lines
    /\ ctx = FreshContext
    /\ raw = None
    /\ result = None
    /\ idx = 0
    /\ pc = StartPc(directives)
    /\ report = None
    /\ run = 1
    /\ prev = None

SpecFactory == InitFactory /\ [][Resolve]_vars

-----------------------------------------------------------------------------
(* The same Case run a second time: every interceptor is built anew, and   *)
(* the environment may have had one of its variables set to another value  *)
(* in between.                                                             *)

Rerun ==
    /\ pc = "done"
    /\ run = 1
    /\ prev' = Some([env |-> env, submitted |-> execute_query,
                     raw |-> raw, report |-> report])
    /\ env' \in {env} \cup {[env EXCEPT ![n] = v] : n \in DOMAIN env, v \in Values}
    /\ resolved' = <<>>
    /\ execute_query' = query_lines
    /\ hook_in' = query_lines
    /\ ctx' = FreshContext
    /\ raw' = None
    /\ result' = None
    /\ idx' = 0
    /\ pc' = StartPc(directives)
    /\ report' = None
    /\ run' = 2
    /\ UNCHANGED <<directives, query_lines, expected_output>>

InitRerun ==
    /\ Init
    /\ Len(directives) = 1
    /\ Len(query_lines) = 1

NextRerun ==
    \/ Next
    \/ Rerun

SpecRerun == InitRerun /\ [][NextRerun]_vars

-----------------------------------------------------------------------------
(* Vocabulary of the properties.                                           *)

HasNo(c, s) == \A i \in 1..Len(s) : s[i] # c

\* key occurs in line at position p
OccursAt(key, line, p) ==
    /\ p + Len(key) - 1 <= Len(line)
    /\ SubSeq(line, p, p + Len(key) - 1) = key

Occurs(key, line) == \E p \in 1..Len(line) : OccursAt(key, line, p)

\* the leading white-space-delimited token of a directive text
LeadingToken(text) ==
    LET n == CHOOSE m \in 0..Len(text) :
                 /\ \A i \in 1..m : ~IsWhitespace(text[i])
                 /\ m = Len(text) \/ IsWhitespace(text[m + 1])
    IN  SubSeq(text, 1, n)

\* what follows the leading token, without the white space around it
Arguments(text) ==
    LET rest == SubSeq(text, Len(LeadingToken(text)) + 1, Len(text))
        inked == {i \in 1..Len(rest) : ~IsWhitespace(rest[i])}
    IN  IF inked = {} THEN <<>>
        ELSE SubSeq(rest, CHOOSE i \in inked : \A j \in inked : i <= j,
                          CHOOSE i \in inked : \A j \in inked : j <= i)

\* the non-empty tokens the arguments hold between single spaces
ArgTokens(text) ==
    LET a == Arguments(text)
    IN  {SubSeq(a, ij[1], ij[2]) :
            ij \in {x \in (1..Len(a)) \X (1..Len(a)) :
                       /\ x[1] <= x[2]
                       /\ \A k \in x[1]..x[2] : a[k] # " "
                       /\ x[1] = 1 \/ a[x[1] - 1] = " "
                       /\ x[2] = Len(a) \/ a[x[2] + 1] = " "}}

\* "$" + name -> value, for the declared names that are set
ExpectedData(text, e) ==
    [k \in {<<"$">> \o n : n \in ArgTokens(text) \cap DOMAIN e} |-> e[Tail(k)]]

\* the directive each interceptor of the chain was built from
ChainSource ==
    LET at == {j \in 1..Len(resolved) : IsSome(resolved[j])}
    IN  [i \in 1..Cardinality(at) |->
            CHOOSE j \in at : Cardinality({k \in at : k <= j}) = i]

\* a before hook has just run: interceptor idx of the chain took hook_in
\* and left execute_query
HookRan == pc = "before" /\ idx >= 1

Without(order, key) == SelectSeq(order, LAMBDA k : k # key)

\* the before hooks of one interceptor per declared name, in declared order
RECURSIVE Separately(_, _, _)
Separately(names, lines, e) ==
    IF names = <<>> THEN lines
    ELSE LET made == Unwrap(create(DirectiveText(<<Head(names)>>), e))
             self == [data |-> made.data,
                      order |-> CHOOSE o \in Orders(DOMAIN made.data) : TRUE]
         IN  Separately(Tail(names),
                        before_execute(self, lines, FreshContext).execute_query, e)

-----------------------------------------------------------------------------
(* The properties.                                                         *)

\* C1: after before_execute every occurrence of "$" + name of a declared and
\* present variable has been replaced by that variable's value, also when one
\* declared name is a prefix of another.  Stated for the lines that hold a
\* single "$", values without "$", and the longest recorded key that starts
\* at that "$": the line comes out with the key's value in the key's place.
C1Claim ==
    HookRan =>
        LET self == Chain[idx]
            keys == DOMAIN self.data
        IN  (\A k \in keys : HasNo("$", self.data[k])) =>
            \A i \in 1..Len(hook_in) : \A k \in keys : \A p \in 1..Len(hook_in[i]) :
                LET line == hook_in[i]
                    before == SubSeq(line, 1, p - 1)
                    after == SubSeq(line, p + Len(k), Len(line))
                IN  ( /\ OccursAt(k, line, p)
                      /\ HasNo("$", before)
                      /\ HasNo("$", after)
                      /\ \A k2 \in keys : OccursAt(k2, line, p) => Len(k2) <= Len(k) )
                    => execute_query[i] = before \o self.data[k] \o after

\* C2: the placeholder of a declared variable that is absent from the
\* environment is left untouched in every query line, whatever else the
\* directive declares; and when no declared variable is present the mapping
\* is empty and the query lines are left as they were.
C2Claim ==
    HookRan =>
        LET self == Chain[idx]
            declared == ArgTokens(directives[ChainSource[idx]])
        IN  /\ \A n \in declared \ DOMAIN env : \A i \in 1..Len(hook_in) :
                   Occurs(<<"$">> \o n, hook_in[i])
                       => Occurs(<<"$">> \o n, execute_query[i])
            /\ declared \cap DOMAIN env = {}
                   => DOMAIN self.data = {} /\ execute_query = hook_in

\* C3: for a directive text whose leading token is ENV, create returns an
\* interceptor whose mapping is exactly "$" + name -> value for the
\* space-separated argument tokens that are set in the environment.
C3Data ==
    \A j \in 1..Len(resolved) :
        LeadingToken(directives[j]) = PREFIX =>
            /\ IsSome(resolved[j])
            /\ Unwrap(resolved[j]).data = ExpectedData(directives[j], env)

\* the test's case: two names declared, one of them absent, one entry
C3Witness ==
    /\ Len(resolved) = 1
    /\ LeadingToken(directives[1]) = PREFIX
    /\ Cardinality(ArgTokens(directives[1])) = 2
    /\ Cardinality(ArgTokens(directives[1]) \ DOMAIN env) = 1
    /\ IsSome(resolved[1])
    /\ Cardinality(DOMAIN Unwrap(resolved[1]).data) = 1

\* C4: a second run of the Case that differs from the first only in the
\* value of an environment variable, and in which the collaborator answers
\* the same, reports the same actual output, verdict and diff and persists
\* the same query, which is the query as written.
C4Redaction ==
    (run = 2 /\ pc = "done" /\ Unwrap(prev).raw = raw) =>
        /\ report = Unwrap(prev).report
        /\ Unwrap(report).query = query_lines
        /\ Unwrap(report).actual_output = Unwrap(raw)

\* both runs done, the changed value reached the submitted query, the
\* collaborator answered the same
C4Witness ==
    /\ run = 2
    /\ pc = "done"
    /\ Unwrap(prev).env # env
    /\ Unwrap(prev).submitted # execute_query
    /\ Unwrap(prev).raw = raw

\* C5: the query one interceptor built from `ENV A B` leaves equals the query
\* the before hooks of two interceptors built from `ENV A` and `ENV B`, run
\* in declared order, leave.
C5Claim ==
    \A a, b \in Names :
        (HookRan /\ idx = 1 /\ directives = <<DirectiveText(<<a, b>>)>>)
            => execute_query = Separately(<<a, b>>, query_lines, env)

\* C6: the factory yields an interceptor exactly when the leading token of
\* the directive text is ENV.
C6Claim ==
    \A j \in 1..Len(resolved) :
        IsSome(resolved[j]) <=> LeadingToken(directives[j]) = PREFIX

\* C7: a second run of the unmodified Case in the same environment submits
\* the same query text as the first.
C7Claim ==
    (run = 2 /\ pc \in {"after", "done"} /\ Unwrap(prev).env = env)
        => execute_query = Unwrap(prev).submitted

\* C8: within one before_execute call, text produced by one substitution is
\* not scanned again for another key: a key that does not occur in a line
\* as the hook received it replaces nothing in that line.
C8Claim ==
    HookRan =>
        LET self == Chain[idx]
        IN  \A i \in 1..Len(hook_in) : \A k2 \in DOMAIN self.data :
                ~Occurs(k2, hook_in[i])
                    => execute_query[i] =
                           render_line(hook_in[i], self.data, Without(self.order, k2))

\* C9: a before hook keeps the number and the order of the query lines,
\* leaves every line that holds no recorded key as it was, and changes
\* neither the context nor any interceptor; an after hook changes neither
\* the result nor the context.
C9Frame ==
    [][ /\ (pc = "before" /\ idx' = idx + 1) =>
              /\ Len(execute_query') = Len(execute_query)
              /\ \A i \in 1..Len(execute_query) :
                     (\A k \in DOMAIN Chain[idx + 1].data :
                          ~Occurs(k, execute_query[i]))
                         => execute_query'[i] = execute_query[i]
              /\ ctx' = ctx
              /\ resolved' = resolved
        /\ (pc = "after" /\ idx' = idx + 1) =>
              /\ result' = result
              /\ ctx' = ctx
              /\ resolved' = resolved
              /\ execute_query' = execute_query ]_vars

\* a two-line query through a before hook that rewrote the first line and
\* had nothing to replace in the second, and through the after hook
C9Witness ==
    /\ pc = "after"
    /\ idx = 1
    /\ Len(Chain) = 1
    /\ Len(query_lines) = 2
    /\ execute_query[1] # query_lines[1]
    /\ \A k \in DOMAIN Chain[1].data : ~Occurs(k, query_lines[2])
    /\ execute_query[2] = query_lines[2]

\* C10: applying before_execute again to the lines it has rewritten leaves
\* them unchanged.
C10Claim ==
    HookRan =>
        before_execute(Chain[idx], execute_query, ctx).execute_query = execute_query

=============================================================================
